---- MODULE Spec2Model ----
(***************************************************************************)
(* One run of update_sentiment.py: calculate_market_context (the headline  *)
(* filter, the news mean, the three indicator signals, the weighted blend  *)
(* and its classification), save_score and the __main__ block.             *)
(*                                                                         *)
(* Numbers.  A Python float is carried as an integer count of millionths   *)
(* (SCALE units per 1.0); every division rounds to the nearest unit, as    *)
(* IEEE arithmetic rounds to the nearest double.  Close prices are whole   *)
(* quotes.  NaN and the two infinities, which pandas/numpy produce for a   *)
(* missing close or a division by a zero close, are kept as values of      *)
(* their own with the comparison and arithmetic rules of IEEE 754.         *)
(* Strings are tuples of one-character strings.  Console output (print)    *)
(* and exceptions that are not Exception (KeyboardInterrupt) are not       *)
(* modelled.                                                               *)
(***************************************************************************)
EXTENDS Integers, Sequences, FiniteSets, TLC

VARIABLES
    pc,            \* position of the run in the script
    cutoff_time,   \* fetch_news_sentiment: cutoff_time (hours)
    feedIdx,       \* fetch_news_sentiment: index of feed_url in NEWS_RSS_FEEDS
    entryNo,       \* number of entries of feed.entries already iterated
    entry,         \* fetch_news_sentiment: the loop variable entry; NoEntry outside the
                   \* entry loop, where the script leaves it unbound or stale
    headlines,     \* fetch_news_sentiment: headlines, a list of (title, score)
    seen,          \* fetch_news_sentiment: seen
    feed_count,    \* fetch_news_sentiment: feed_count; 0 outside the entry loop, where
                   \* the script leaves it unbound or stale and never reads it
    news_score,    \* calculate_market_context: news_score
    dxy_score,     \* calculate_market_context: dxy_score
    yield_score,   \* calculate_market_context: yield_score
    vix_current,   \* get_vix_signal: current
    vix_score,     \* calculate_market_context: vix_score
    final_score,   \* calculate_market_context: final_score
    bias,          \* calculate_market_context: bias
    score,         \* __main__: score
    artifact,      \* content of OUTPUT_FILE_PATH
    saveLog,       \* history: the calls of save_score, in order
    raisedAt,      \* history: where the exception caught by __main__ was raised, "" if none
    allFailed,     \* history: no fetch (feed or indicator) has succeeded so far
    exitStatus     \* process exit status, -1 while running

vars == << pc, cutoff_time, feedIdx, entryNo, entry, headlines, seen, feed_count,
           news_score, dxy_score, yield_score, vix_current, vix_score, final_score,
           bias, score, artifact, saveLog, raisedAt, allFailed, exitStatus >>

----------------------------------------------------------------------------
(* Bounds of the model *)

\* most entries iterated in one feed
MaxEntries == 2

\* most rows in the history an indicator fetch returns (period="5d")
MaxHist == 2

----------------------------------------------------------------------------
(* Floats *)

SCALE == 1000 * 1000

NaN == 2 * 1000 * SCALE + 3
PosInf == 2 * 1000 * SCALE + 1
NegInf == 0 - PosInf

IsFinite(x) == x # NaN /\ x # PosInf /\ x # NegInf

\* n / d rounded to the nearest integer, d > 0
RoundDiv(n, d) == (2 * n + d) \div (2 * d)

\* x < y and x > y on floats: every comparison with NaN is false
FLt(x, y) == x # NaN /\ y # NaN /\ x < y
FGt(x, y) == FLt(y, x)

FNeg(x) == IF x = NaN THEN NaN ELSE 0 - x

\* x - y on whole quotes
FSub(x, y) == IF x = NaN \/ y = NaN THEN NaN ELSE x - y

\* x / y for whole x and y, the quotient in SCALE units; numpy gives inf or nan for y = 0
FDiv(x, y) ==
    IF x = NaN \/ y = NaN THEN NaN
    ELSE IF y = 0 THEN (IF x > 0 THEN PosInf ELSE IF x < 0 THEN NegInf ELSE NaN)
    ELSE IF y > 0 THEN RoundDiv(x * SCALE, y) ELSE 0 - RoundDiv(x * SCALE, 0 - y)

\* x * k for a positive whole k
FMulInt(x, k) == IF IsFinite(x) THEN x * k ELSE x

\* x / k for a positive whole k
FDivInt(x, k) == IF IsFinite(x) THEN RoundDiv(x, k) ELSE x

\* x * (n / d) for a decimal literal n/d
FMulRat(x, n, d) == IF IsFinite(x) THEN RoundDiv(x * n, d) ELSE x

\* Python min(a, b) and max(a, b): the first argument stays unless the second beats it
PyMin(a, b) == IF FLt(b, a) THEN b ELSE a
PyMax(a, b) == IF FGt(b, a) THEN b ELSE a

\* a clamp to [-2, 2]
ClampWide(signal) == PyMax(0 - 2 * SCALE, PyMin(2 * SCALE, signal))
\* max(-1.0, min(1.0, signal))
Clamp(signal) == PyMax(0 - SCALE, PyMin(SCALE, signal))

----------------------------------------------------------------------------
(* Strings *)

UpperChars == <<"A","B","C","D","E","F","G","H","I","J","K","L","M","N","O","P","Q","R","S","T","U","V","W","X","Y","Z">>
LowerChars == <<"a","b","c","d","e","f","g","h","i","j","k","l","m","n","o","p","q","r","s","t","u","v","w","x","y","z">>

LowerChar(c) ==
    IF \E i \in 1..Len(UpperChars) : UpperChars[i] = c
    THEN LowerChars[CHOOSE i \in 1..Len(UpperChars) : UpperChars[i] = c]
    ELSE c

\* str.lower()
Lower(s) == [i \in 1..Len(s) |-> LowerChar(s[i])]

\* kw in s
Contains(kw, s) ==
    \E i \in 0..(Len(s) - Len(kw)) : SubSeq(s, i + 1, i + Len(kw)) = kw

----------------------------------------------------------------------------
(* Configuration *)

NEWS_RSS_FEEDS == << "kitco", "fxstreet", "investing", "dailyfx", "forexlive" >>

RELEVANT_KEYWORDS == {
      <<"g","o","l","d">>,
      <<"x","a","u">>,
      <<"x","a","u","u","s","d">>,
      <<"p","r","e","c","i","o","u","s"," ","m","e","t","a","l">>,
      <<"f","e","d">>,
      <<"f","e","d","e","r","a","l"," ","r","e","s","e","r","v","e">>,
      <<"p","o","w","e","l","l">>,
      <<"f","o","m","c">>,
      <<"i","n","f","l","a","t","i","o","n">>,
      <<"c","p","i">>,
      <<"p","p","i">>,
      <<"p","c","e">>,
      <<"d","e","f","l","a","t","i","o","n">>,
      <<"r","a","t","e">>,
      <<"i","n","t","e","r","e","s","t"," ","r","a","t","e">>,
      <<"r","a","t","e"," ","c","u","t">>,
      <<"r","a","t","e"," ","h","i","k","e">>,
      <<"d","o","l","l","a","r">>,
      <<"d","x","y">>,
      <<"u","s","d">>,
      <<"g","r","e","e","n","b","a","c","k">>,
      <<"s","a","f","e","-","h","a","v","e","n">>,
      <<"s","a","f","e"," ","h","a","v","e","n">>,
      <<"h","a","v","e","n">>,
      <<"g","e","o","p","o","l","i","t","i","c","a","l">>,
      <<"w","a","r">>,
      <<"c","o","n","f","l","i","c","t">>,
      <<"t","e","n","s","i","o","n">>,
      <<"t","r","e","a","s","u","r","y">>,
      <<"y","i","e","l","d">>,
      <<"b","o","n","d">>,
      <<"n","f","p">>,
      <<"e","m","p","l","o","y","m","e","n","t">>,
      <<"u","n","e","m","p","l","o","y","m","e","n","t">>,
      <<"j","o","b","s">>,
      <<"r","e","c","e","s","s","i","o","n">>,
      <<"c","r","i","s","i","s">>,
      <<"u","n","c","e","r","t","a","i","n","t","y">>,
      <<"v","o","l","a","t","i","l","i","t","y">>,
      <<"c","e","n","t","r","a","l"," ","b","a","n","k">>,
      <<"s","t","i","m","u","l","u","s">>,
      <<"t","a","p","e","r","i","n","g">>,
      <<"q","e">> }

RECENCY_HOURS == 2

\* in hundredths
WEIGHTS == [ news_sentiment |-> 60, dxy_signal |-> 20, yield_signal |-> 10, vix_signal |-> 10 ]

----------------------------------------------------------------------------
(* Inputs of one run *)

\* datetime.now(timezone.utc), in hours
NowUTC == 4

\* an absent published_parsed / updated_parsed (None)
NoStamp == 0 - 1

\* timestamps a feed can carry: none, one hour older than the cutoff, exactly the cutoff
Stamps == { NoStamp, NowUTC - RECENCY_HOURS - 1, NowUTC - RECENCY_HOURS }

\* titles a feed can carry; the empty title is an entry without a title
Titles == { <<"W","a","r">>, <<"W","A","R">>, <<"W","a","r","m">>, <<"h","i">>, << >> }

Entries == [ title : Titles, published_parsed : Stamps, updated_parsed : Stamps ]

\* the loop variable before the first iteration and between iterations
NoEntry == [ title |-> << >>, published_parsed |-> NoStamp, updated_parsed |-> NoStamp ]

\* compound scores analyzer.polarity_scores can return, all in [-1, 1]
CompoundScores == { 0 - SCALE, 0 - (SCALE \div 2), SCALE }

\* closes of the three indicator series
DxyCloses == { 0, 100, 103, NaN }
YieldCloses == { 2, 4, 7, NaN }
VixCloses == { 11, 12, 14, 15, 20, 21, 25, 26, 30, 31, NaN }

\* histories of at most MaxHist rows
Hists(closes) == UNION { [1..n -> closes] : n \in 0..MaxHist }

----------------------------------------------------------------------------
(* fetch_news_sentiment *)

\* entry.get('published_parsed') or entry.get('updated_parsed')
PubDate(e) ==
    IF e.published_parsed # NoStamp THEN e.published_parsed ELSE e.updated_parsed

\* a filter without the recency check
StaleNever(e, cutoff) == FALSE

\* if pub_date: ... if pub_datetime < cutoff_time: continue
Stale(e, cutoff) == PubDate(e) # NoStamp /\ PubDate(e) < cutoff

\* any(kw in title_lower for kw in RELEVANT_KEYWORDS)
Relevant(title_lower) == \E kw \in RELEVANT_KEYWORDS : Contains(kw, title_lower)

\* a filter that forgets to record the title
SeenAddNothing(s, title_lower) == s

\* seen.add(title_lower)
SeenAdd(s, title_lower) == s \cup { title_lower }

\* the entry passes the recency, keyword and duplicate checks
Accepted(e) ==
    /\ ~Stale(e, cutoff_time)
    /\ Relevant(Lower(e.title))
    /\ Lower(e.title) \notin seen

newsVars == << cutoff_time, feedIdx, entryNo, entry, headlines, seen, feed_count >>
signalVars == << news_score, dxy_score, yield_score, vix_current, vix_score,
                 final_score, bias >>
mainVars == << score, artifact, saveLog, raisedAt, exitStatus >>

\* the except clause of __main__ was entered
Raised == raisedAt # ""

\* the position after one iteration of "for feed_url in NEWS_RSS_FEEDS"
AfterFeed(i) == IF i + 1 > Len(NEWS_RSS_FEEDS) THEN "news_avg" ELSE "feed_fetch"

\* calculate_market_context up to the call of fetch_news_sentiment
CmcStart ==
    /\ pc = "cmc_start"
    /\ pc' = "news_init"
    /\ UNCHANGED << newsVars, signalVars, mainVars, allFailed >>

\* analyzer, cutoff_time, headlines, seen
NewsInit ==
    /\ pc = "news_init"
    /\ cutoff_time' = NowUTC - RECENCY_HOURS
    /\ headlines' = << >>
    /\ seen' = {}
    /\ feedIdx' = 1
    /\ pc' = AfterFeed(0)
    /\ UNCHANGED << entryNo, entry, feed_count, signalVars, mainVars, allFailed >>

\* feedparser.parse returns; feed_count = 0
FeedParsed ==
    /\ pc = "feed_fetch"
    /\ feed_count' = 0
    /\ entryNo' = 0
    /\ allFailed' = FALSE
    /\ pc' = "feed_entries"
    /\ UNCHANGED << cutoff_time, feedIdx, entry, headlines, seen, signalVars, mainVars >>

\* feedparser.parse raises
FeedParseError ==
    /\ pc = "feed_fetch"
    /\ pc' = "feed_except"
    /\ UNCHANGED << newsVars, signalVars, mainVars, allFailed >>

\* for entry in feed.entries: the next entry
NextEntry ==
    /\ pc = "feed_entries"
    /\ entryNo < MaxEntries
    /\ \E e \in Entries : entry' = e
    /\ entryNo' = entryNo + 1
    /\ pc' = "entry_body"
    /\ UNCHANGED << cutoff_time, feedIdx, headlines, seen, feed_count,
                    signalVars, mainVars, allFailed >>

\* the loop body runs to its end, by a continue or through the append
EntryBody ==
    /\ pc = "entry_body"
    /\ IF Accepted(entry)
       THEN /\ seen' = SeenAdd(seen, Lower(entry.title))
            /\ \E s \in CompoundScores :
                   headlines' = Append(headlines, << entry.title, s >>)
            /\ feed_count' = feed_count + 1
       ELSE UNCHANGED << seen, headlines, feed_count >>
    /\ pc' = "feed_entries"
    /\ UNCHANGED << cutoff_time, feedIdx, entryNo, entry, signalVars, mainVars, allFailed >>

\* the loop body raises before seen.add (a title that is not a string, a bad date)
EntryRaiseEarly ==
    /\ pc = "entry_body"
    /\ pc' = "feed_except"
    /\ UNCHANGED << cutoff_time, feedIdx, entryNo, entry, headlines, seen, feed_count,
                    signalVars, mainVars, allFailed >>

\* analyzer.polarity_scores raises: the title is in seen and not in headlines
EntryRaiseScoring ==
    /\ pc = "entry_body"
    /\ Accepted(entry)
    /\ seen' = SeenAdd(seen, Lower(entry.title))
    /\ pc' = "feed_except"
    /\ UNCHANGED << cutoff_time, feedIdx, entryNo, entry, headlines, feed_count,
                    signalVars, mainVars, allFailed >>

\* feed.entries is exhausted; on to the next feed
FeedEnd ==
    /\ pc = "feed_entries"
    /\ feedIdx' = feedIdx + 1
    /\ feed_count' = 0
    /\ entryNo' = 0
    /\ entry' = NoEntry
    /\ pc' = AfterFeed(feedIdx)
    /\ UNCHANGED << cutoff_time, headlines, seen, signalVars, mainVars, allFailed >>

\* an except clause placed around the whole loop instead of inside it
FeedAbortLoop ==
    /\ pc = "feed_except"
    /\ pc' = "news_avg"
    /\ feedIdx' = Len(NEWS_RSS_FEEDS) + 1
    /\ feed_count' = 0
    /\ entryNo' = 0
    /\ entry' = NoEntry
    /\ UNCHANGED << cutoff_time, headlines, seen,
                    signalVars, mainVars, allFailed >>

\* an except clause that goes back to fetch the same feed again
FeedExceptRetry ==
    /\ pc = "feed_except"
    /\ feed_count' = 0
    /\ entryNo' = 0
    /\ entry' = NoEntry
    /\ pc' = "feed_fetch"
    /\ UNCHANGED << cutoff_time, feedIdx, headlines, seen, signalVars, mainVars, allFailed >>

\* except Exception as e: the error is printed; on to the next feed
FeedExcept ==
    /\ pc = "feed_except"
    /\ feedIdx' = feedIdx + 1
    /\ feed_count' = 0
    /\ entryNo' = 0
    /\ entry' = NoEntry
    /\ pc' = AfterFeed(feedIdx)
    /\ UNCHANGED << cutoff_time, headlines, seen, signalVars, mainVars, allFailed >>

\* sum(score for _, score in headlines), by position
RECURSIVE SumScores(_)
SumScores(hs) == IF hs = << >> THEN 0 ELSE hs[1][2] + SumScores(Tail(hs))

\* a mean whose default for no headline is bullish
AvgSentimentDefaultBullish(hs) == IF hs = << >> THEN SCALE ELSE RoundDiv(SumScores(hs), Len(hs))

\* 0.0 for no headline, else the mean
AvgSentiment(hs) == IF hs = << >> THEN 0 ELSE RoundDiv(SumScores(hs), Len(hs))

\* the end of fetch_news_sentiment: its locals go, news_score is assigned
NewsAvg ==
    /\ pc = "news_avg"
    /\ news_score' = AvgSentiment(headlines)
    /\ headlines' = << >>
    /\ seen' = {}
    /\ pc' = "dxy"
    /\ UNCHANGED << cutoff_time, feedIdx, entryNo, entry, feed_count, dxy_score, yield_score,
                    vix_current, vix_score, final_score, bias, mainVars, allFailed >>

----------------------------------------------------------------------------
(* Market indicators *)

\* get_dxy_signal on a fetched history
DxySignal(hist) ==
    IF Len(hist) < 2 THEN 0
    ELSE LET current == hist[Len(hist)]
             week_ago == hist[1]
             change_pct == FMulInt(FDiv(FSub(current, week_ago), week_ago), 100)
             signal == FDivInt(FNeg(change_pct), 3)
         IN  Clamp(signal)

\* get_yield_signal on a fetched history
YieldSignal(hist) ==
    IF Len(hist) < 2 THEN 0
    ELSE LET current == hist[Len(hist)]
             week_ago == hist[1]
             change == FMulInt(FSub(current, week_ago), SCALE)
             signal == FMulRat(FNeg(change), 4, 10)
         IN  Clamp(signal)

\* a chain whose comparisons include the breakpoints
VixStepInclusive(current) ==
    IF current # NaN /\ current >= 30 THEN 8 * (SCALE \div 10)
    ELSE IF current # NaN /\ current >= 25 THEN 5 * (SCALE \div 10)
    ELSE IF current # NaN /\ current >= 20 THEN 3 * (SCALE \div 10)
    ELSE IF current # NaN /\ current <= 12 THEN 0 - 3 * (SCALE \div 10)
    ELSE IF current # NaN /\ current <= 15 THEN 0 - (SCALE \div 10)
    ELSE 0

\* the if/elif chain of get_vix_signal on current, a whole quote or NaN
VixStep(current) ==
    IF FGt(current, 30) THEN 8 * (SCALE \div 10)
    ELSE IF FGt(current, 25) THEN 5 * (SCALE \div 10)
    ELSE IF FGt(current, 20) THEN 3 * (SCALE \div 10)
    ELSE IF FLt(current, 12) THEN 0 - 3 * (SCALE \div 10)
    ELSE IF FLt(current, 15) THEN 0 - (SCALE \div 10)
    ELSE 0

\* no close read yet
NoClose == 0 - 1

get_dxy_signal ==
    /\ pc = "dxy"
    /\ \/ /\ dxy_score' = 0                      \* except Exception: return 0.0
          /\ UNCHANGED allFailed
       \/ /\ \E hist \in Hists(DxyCloses) : dxy_score' = DxySignal(hist)
          /\ allFailed' = FALSE
    /\ pc' = "yield"
    /\ UNCHANGED << newsVars, news_score, yield_score, vix_current, vix_score,
                    final_score, bias, mainVars >>

get_yield_signal ==
    /\ pc = "yield"
    /\ \/ /\ yield_score' = 0                    \* except Exception: return 0.0
          /\ UNCHANGED allFailed
       \/ /\ \E hist \in Hists(YieldCloses) : yield_score' = YieldSignal(hist)
          /\ allFailed' = FALSE
    /\ pc' = "vix"
    /\ UNCHANGED << newsVars, news_score, dxy_score, vix_current, vix_score,
                    final_score, bias, mainVars >>

get_vix_signal ==
    /\ pc = "vix"
    /\ \/ /\ vix_score' = 0                      \* except Exception: return 0.0
          /\ UNCHANGED << vix_current, allFailed >>
       \/ /\ \E hist \in Hists(VixCloses) :
                 IF Len(hist) < 1
                 THEN vix_score' = 0 /\ UNCHANGED vix_current
                 ELSE /\ vix_current' = hist[Len(hist)]
                      /\ vix_score' = VixStep(hist[Len(hist)])
          /\ allFailed' = FALSE
    /\ pc' = "aggregate"
    /\ UNCHANGED << newsVars, news_score, dxy_score, yield_score,
                    final_score, bias, mainVars >>

----------------------------------------------------------------------------
(* The weighted blend and its classification *)

\* signal * WEIGHTS[name]
Weighted(signal, w) == RoundDiv(signal * w, 100)

\* the weighted sum, clamped
FinalScore(n, d, y, v) ==
    Clamp(Weighted(n, WEIGHTS.news_sentiment) + Weighted(d, WEIGHTS.dxy_signal)
          + Weighted(y, WEIGHTS.yield_signal) + Weighted(v, WEIGHTS.vix_signal))

\* a chain whose neutral band starts at 0.0
BiasShifted(fs) ==
    IF fs > SCALE \div 2 THEN "STRONGLY BULLISH"
    ELSE IF fs > SCALE \div 5 THEN "BULLISH"
    ELSE IF fs > 0 THEN "NEUTRAL"
    ELSE IF fs > 0 - (SCALE \div 2) THEN "BEARISH"
    ELSE "STRONGLY BEARISH"

\* the if/elif chain on final_score
Bias(fs) ==
    IF fs > SCALE \div 2 THEN "STRONGLY BULLISH"
    ELSE IF fs > SCALE \div 5 THEN "BULLISH"
    ELSE IF fs > 0 - (SCALE \div 5) THEN "NEUTRAL"
    ELSE IF fs > 0 - (SCALE \div 2) THEN "BEARISH"
    ELSE "STRONGLY BEARISH"

\* the blend, the bias, the return and the assignment score = ...
Aggregate ==
    /\ pc = "aggregate"
    /\ final_score' = FinalScore(news_score, dxy_score, yield_score, vix_score)
    /\ bias' = Bias(final_score')
    /\ score' = final_score'
    /\ pc' = "main_save"
    /\ UNCHANGED << newsVars, news_score, dxy_score, yield_score, vix_current, vix_score,
                    artifact, saveLog, raisedAt, exitStatus, allFailed >>

\* an exception raised in calculate_market_context outside every local try block (the
\* analyzer's construction, the mean, the blend); it propagates to __main__
RaiseUnexpected ==
    /\ pc \in { "cmc_start", "news_init", "news_avg", "aggregate" }
    /\ pc' = "main_except"
    /\ raisedAt' = pc
    /\ UNCHANGED << newsVars, signalVars, score, artifact, saveLog, exitStatus, allFailed >>

----------------------------------------------------------------------------
(* save_score and __main__ *)

\* f"{score:.4f}": the sign and the count of ten-thousandths, ties to even
Format4(x) ==
    LET a == IF x < 0 THEN 0 - x ELSE x
        q == a \div 100
        r == a % 100
    IN  [ neg |-> x < 0,
          digits |-> IF r > 50 \/ (r = 50 /\ q % 2 = 1) THEN q + 1 ELSE q ]

\* the file before the run: whatever an earlier run left, or nothing
PriorContent == [ kind |-> "prior", neg |-> FALSE, digits |-> 0 ]

\* what open(..., 'w') leaves when the write after it fails
EmptyFile == [ kind |-> "empty", neg |-> FALSE, digits |-> 0 ]

TextFile(x) == [ kind |-> "text", neg |-> Format4(x).neg, digits |-> Format4(x).digits ]

SaveOutcomes == { "ok", "open_fails", "write_fails" }

\* the file after save_score(x) with the given outcome
save_score(x, outcome, before) ==
    IF outcome = "ok" THEN TextFile(x)
    ELSE IF outcome = "write_fails" THEN EmptyFile
    ELSE before

\* a __main__ that ignores what save_score returns
MainSaveIgnoreResult ==
    /\ pc = "main_save"
    /\ \E o \in SaveOutcomes :
          /\ artifact' = save_score(score, o, artifact)
          /\ saveLog' = Append(saveLog, [ value |-> score, ok |-> (o = "ok") ])
    /\ pc' = "exit_ok"
    /\ UNCHANGED << newsVars, signalVars, score, raisedAt, exitStatus, allFailed >>

\* if save_score(score): exit(0) else: exit(1), up to the call of exit
MainSave ==
    /\ pc = "main_save"
    /\ \E o \in SaveOutcomes :
          /\ artifact' = save_score(score, o, artifact)
          /\ saveLog' = Append(saveLog, [ value |-> score, ok |-> (o = "ok") ])
          /\ pc' = IF o = "ok" THEN "exit_ok" ELSE "exit_fail"
    /\ UNCHANGED << newsVars, signalVars, score, raisedAt, exitStatus, allFailed >>

\* exit(0)
ExitOk ==
    /\ pc = "exit_ok"
    /\ exitStatus' = 0
    /\ pc' = "exited"
    /\ UNCHANGED << newsVars, signalVars, score, artifact, saveLog, raisedAt, allFailed >>

\* exit(1) after a failed write
ExitFail ==
    /\ pc = "exit_fail"
    /\ exitStatus' = 1
    /\ pc' = "exited"
    /\ UNCHANGED << newsVars, signalVars, score, artifact, saveLog, raisedAt, allFailed >>

\* an except clause that writes no fallback
MainExceptNoFallback ==
    /\ pc = "main_except"
    /\ pc' = "except_exit"
    /\ UNCHANGED << newsVars, signalVars, score, artifact, saveLog, raisedAt,
                    exitStatus, allFailed >>

\* except Exception as e: the traceback, then save_score(0.0)
MainExcept ==
    /\ pc = "main_except"
    /\ \E o \in SaveOutcomes :
          /\ artifact' = save_score(0, o, artifact)
          /\ saveLog' = Append(saveLog, [ value |-> 0, ok |-> (o = "ok") ])
    /\ pc' = "except_exit"
    /\ UNCHANGED << newsVars, signalVars, score, raisedAt, exitStatus, allFailed >>

\* exit(1) at the end of the except clause
ExceptExit ==
    /\ pc = "except_exit"
    /\ exitStatus' = 1
    /\ pc' = "exited"
    /\ UNCHANGED << newsVars, signalVars, score, artifact, saveLog, raisedAt, allFailed >>

----------------------------------------------------------------------------
(* The run *)

Init ==
    /\ pc = "cmc_start"
    /\ cutoff_time = 0
    /\ feedIdx = 0
    /\ entryNo = 0
    /\ entry = NoEntry
    /\ headlines = << >>
    /\ seen = {}
    /\ feed_count = 0
    /\ news_score = 0
    /\ dxy_score = 0
    /\ yield_score = 0
    /\ vix_current = NoClose
    /\ vix_score = 0
    /\ final_score = 0
    /\ bias = ""
    /\ score = 0
    /\ artifact = PriorContent
    /\ saveLog = << >>
    /\ raisedAt = ""
    /\ allFailed = TRUE
    /\ exitStatus = 0 - 1

Next ==
    \/ CmcStart
    \/ NewsInit
    \/ FeedParsed
    \/ FeedParseError
    \/ NextEntry
    \/ EntryBody
    \/ EntryRaiseEarly
    \/ EntryRaiseScoring
    \/ FeedEnd
    \/ FeedExcept
    \/ NewsAvg
    \/ get_dxy_signal
    \/ get_yield_signal
    \/ get_vix_signal
    \/ Aggregate
    \/ RaiseUnexpected
    \/ MainSave
    \/ ExitOk
    \/ ExitFail
    \/ MainExcept
    \/ ExceptExit

Spec == Init /\ [][Next]_vars

\* the script is the only thread of its process: a step that can be taken is taken
FairSpec == Spec /\ WF_vars(Next)

----------------------------------------------------------------------------
(* Properties *)

InUnit(x) == 0 - SCALE <= x /\ x <= SCALE

ZeroText == [ kind |-> "text", neg |-> FALSE, digits |-> 0 ]

NumFeeds == Len(NEWS_RSS_FEEDS)

\* all five feed fetches and all three indicator fetches were made and every one raised
AllFetchesFailed ==
    /\ allFailed
    /\ \/ pc \in { "aggregate", "main_save", "exit_ok", "exit_fail" }
       \/ pc = "exited" /\ raisedAt \in { "", "aggregate" }
       \/ pc \in { "main_except", "except_exit" } /\ raisedAt = "aggregate"

\* C1: the three indicator signals, final_score and every value handed to save_score
\* lie in [-1, 1], whatever the series (NaN and zero closes included) and whichever
\* fetches fail.
C1_SignalsAndFinalScoreInUnit ==
    /\ InUnit(dxy_score)
    /\ InUnit(yield_score)
    /\ InUnit(vix_score)
    /\ InUnit(final_score)
    /\ \A i \in 1..Len(saveLog) : InUnit(saveLog[i].value)

\* a run whose currency and yield signals were clamped to -1 and +1 reaches save_score
C1_Witness ==
    /\ pc = "exited"
    /\ dxy_score = 0 - SCALE
    /\ yield_score = SCALE
    /\ vix_score = 8 * (SCALE \div 10)
    /\ Len(saveLog) = 1
    /\ saveLog[1].value = final_score
    /\ final_score # 0

\* C2: once an exception has escaped calculate_market_context the run goes only through
\* the except clause; before exit is called save_score has been called exactly once,
\* with 0.0 (text 0.0000), and the exit status is 1.
C2_FallbackWrittenBeforeExit1 ==
    Raised =>
        /\ pc \in { "main_except", "except_exit", "exited" }
        /\ pc = "main_except" => saveLog = << >> /\ exitStatus = 0 - 1
        /\ pc \in { "except_exit", "exited" } =>
              /\ Len(saveLog) = 1
              /\ saveLog[1].value = 0
              /\ TextFile(saveLog[1].value) = ZeroText
              /\ saveLog[1].ok => artifact = ZeroText
        /\ pc = "except_exit" => exitStatus = 0 - 1
        /\ pc = "exited" => exitStatus = 1

\* an exception raised in the blend, the fallback written, the run ended
C2_Witness ==
    /\ pc = "exited"
    /\ raisedAt = "aggregate"
    /\ artifact = ZeroText
    /\ exitStatus = 1

\* C3: a finished run has status 0 or 1; 0 exactly when no exception reached __main__ and
\* save_score(score) returned True; a run that has not finished has no status.
C3_ExitStatus ==
    /\ pc # "exited" => exitStatus = 0 - 1
    /\ pc = "exited" =>
          /\ exitStatus \in { 0, 1 }
          /\ exitStatus = 0 <=>
                 /\ ~Raised
                 /\ Len(saveLog) = 1
                 /\ saveLog[1].ok
                 /\ saveLog[1].value = score

\* a fatal error whose fallback write succeeded still ends with status 1
C3_Witness ==
    /\ pc = "exited"
    /\ Raised
    /\ Len(saveLog) = 1
    /\ saveLog[1].ok
    /\ exitStatus = 1

\* C4 as stated: when every fetch fails, the file holds 0.0000 and the status is 1.
C4_Original ==
    (AllFetchesFailed /\ pc = "exited") => (artifact = ZeroText /\ exitStatus = 1)

\* C4 amended: when every fetch fails, a final score that is computed is 0.0, the value
\* handed to save_score is 0.0, the file holds 0.0000 if that write succeeds, and the
\* status is 0 exactly when it succeeds and no exception reached __main__.
C4_AllFetchesFailNeutral ==
    (AllFetchesFailed /\ pc = "exited") =>
        /\ ~Raised => final_score = 0 /\ score = 0
        /\ Len(saveLog) = 1
        /\ saveLog[1].value = 0
        /\ saveLog[1].ok => artifact = ZeroText
        /\ exitStatus = 0 <=> (~Raised /\ saveLog[1].ok)

\* every fetch failed, 0.0000 was written, and the run ended with status 0
C4_Witness ==
    /\ AllFetchesFailed
    /\ pc = "exited"
    /\ ~Raised
    /\ artifact = ZeroText
    /\ exitStatus = 0

\* C5 as stated (its safety half): at termination the file holds the computed score or
\* the fallback 0.0000.
C5_Original ==
    pc = "exited" => (artifact = TextFile(score) \/ artifact = ZeroText)

\* C5 amended: every run terminates, and only after save_score has been called; the file
\* holds the value of the last call (the computed score, or 0.0 after a fatal error) if
\* that call succeeded, and may hold no value if it failed.
C5_TerminatesAfterSaveAttempt ==
    /\ <>(pc = "exited")
    /\ [](pc = "exited" =>
            /\ Len(saveLog) = 1
            /\ saveLog[1].value = (IF Raised THEN 0 ELSE score)
            /\ saveLog[1].ok => artifact = TextFile(saveLog[1].value)
            /\ ~saveLog[1].ok => artifact \in { PriorContent, EmptyFile })

\* a run that ended after a failed write: the file holds no value
C5_Witness ==
    /\ pc = "exited"
    /\ Len(saveLog) = 1
    /\ ~saveLog[1].ok
    /\ artifact = EmptyFile

\* C6 as stated: neutral for -0.2 <= score <= 0.2, bearish for -0.5 <= score < -0.2,
\* strongly bearish for score < -0.5.
C6_Original ==
    bias # "" =>
        /\ bias = "STRONGLY BULLISH" <=> final_score > SCALE \div 2
        /\ bias = "BULLISH" <=> (final_score > SCALE \div 5 /\ final_score <= SCALE \div 2)
        /\ bias = "NEUTRAL" <=>
               (final_score >= 0 - (SCALE \div 5) /\ final_score <= SCALE \div 5)
        /\ bias = "BEARISH" <=>
               (final_score >= 0 - (SCALE \div 2) /\ final_score < 0 - (SCALE \div 5))
        /\ bias = "STRONGLY BEARISH" <=> final_score < 0 - (SCALE \div 2)

\* C6 amended: the lower breakpoints are strict the other way: neutral for
\* -0.2 < score <= 0.2, bearish for -0.5 < score <= -0.2 (so exactly -0.2 is bearish),
\* strongly bearish for score <= -0.5 (so exactly -0.5 is strongly bearish).
C6_BiasTable ==
    bias # "" =>
        /\ InUnit(final_score)
        /\ bias = "STRONGLY BULLISH" <=> final_score > SCALE \div 2
        /\ bias = "BULLISH" <=> (final_score > SCALE \div 5 /\ final_score <= SCALE \div 2)
        /\ bias = "NEUTRAL" <=>
               (final_score > 0 - (SCALE \div 5) /\ final_score <= SCALE \div 5)
        /\ bias = "BEARISH" <=>
               (final_score > 0 - (SCALE \div 2) /\ final_score <= 0 - (SCALE \div 5))
        /\ bias = "STRONGLY BEARISH" <=> final_score <= 0 - (SCALE \div 2)

\* a final score of exactly -0.2, labelled bearish
C6_Witness ==
    /\ final_score = 0 - (SCALE \div 5)
    /\ bias = "BEARISH"

\* C7: for a latest close v that was read, vix_score is the step-table value:
\* 0.8 for v > 30, 0.5 for 25 < v <= 30, 0.3 for 20 < v <= 25, -0.3 for v < 12,
\* -0.1 for 12 <= v < 15, 0.0 for 15 <= v <= 20.
C7_VixStepTable ==
    (vix_current # NoClose /\ vix_current # NaN) =>
        /\ vix_current > 30 => vix_score = 8 * (SCALE \div 10)
        /\ (25 < vix_current /\ vix_current <= 30) => vix_score = 5 * (SCALE \div 10)
        /\ (20 < vix_current /\ vix_current <= 25) => vix_score = 3 * (SCALE \div 10)
        /\ vix_current < 12 => vix_score = 0 - 3 * (SCALE \div 10)
        /\ (12 <= vix_current /\ vix_current < 15) => vix_score = 0 - (SCALE \div 10)
        /\ (15 <= vix_current /\ vix_current <= 20) => vix_score = 0

\* a latest close of exactly 25 gave 0.3
C7_Witness ==
    /\ vix_current = 25
    /\ vix_score = 3 * (SCALE \div 10)
    /\ pc = "aggregate"

\* C8 as stated (its first part): a feed whose processing raised has contributed no
\* headline, also when it raised part-way through its entries.
C8_Original ==
    pc = "feed_except" => feed_count = 0

\* C8 amended: a feed whose fetch raises contributes no headline; a feed that raises
\* part-way keeps the headlines accepted before the error and adds none after it; the
\* error is handled inside the loop, the run goes on with the next feed, and the mean is
\* taken only after all feeds were visited.
C8_FeedErrorContained ==
    /\ [][ pc = "feed_except" =>
             /\ headlines' = headlines
             /\ feedIdx' = feedIdx + 1
             /\ pc' = (IF feedIdx < NumFeeds THEN "feed_fetch" ELSE "news_avg") ]_vars
    /\ [](pc = "feed_except" =>
             /\ feedIdx \in 1..NumFeeds
             /\ feed_count <= Len(headlines)
             /\ entryNo = 0 => feed_count = 0)
    /\ [](pc = "news_avg" => feedIdx = NumFeeds + 1)

\* the first feed raised on its second entry after its first was accepted
C8_Witness ==
    /\ pc = "feed_except"
    /\ feedIdx = 1
    /\ entryNo = 2
    /\ feed_count = 1
    /\ Len(headlines) = 1

\* C9: no two scored headlines have the same lower-cased title.
C9_NoCaseInsensitiveRepeat ==
    \A i, j \in 1..Len(headlines) :
        i # j => Lower(headlines[i][1]) # Lower(headlines[j][1])

\* the second feed carried "WAR" after the first feed's "War" was scored: it was dropped
C9_Witness ==
    /\ pc = "feed_entries"
    /\ feedIdx = 2
    /\ entryNo = 1
    /\ entry.title = <<"W","A","R">>
    /\ PubDate(entry) = NoStamp
    /\ Len(headlines) = 1
    /\ headlines[1][1] = <<"W","a","r">>
    /\ feed_count = 0

\* C10: an entry whose timestamp (published, or updated when there is no published) is
\* strictly older than the cutoff adds no headline; an entry with neither timestamp whose
\* title is relevant and not seen before is appended whenever the body does not raise.
C10_RecencyFilter ==
    [][ pc = "entry_body" =>
          /\ (PubDate(entry) # NoStamp /\ PubDate(entry) < NowUTC - RECENCY_HOURS)
                => headlines' = headlines
          /\ ( /\ entry.published_parsed = NoStamp
               /\ entry.updated_parsed = NoStamp
               /\ Relevant(Lower(entry.title))
               /\ Lower(entry.title) \notin seen
               /\ pc' = "feed_entries" )
                => /\ Len(headlines') = Len(headlines) + 1
                   /\ headlines'[Len(headlines')][1] = entry.title ]_vars

\* a relevant, unseen entry one hour older than the cutoff was iterated and not appended
C10_Witness ==
    /\ pc = "feed_entries"
    /\ entryNo = 1
    /\ PubDate(entry) = NowUTC - RECENCY_HOURS - 1
    /\ Relevant(Lower(entry.title))
    /\ Lower(entry.title) \notin seen
    /\ headlines = << >>

====
